---------------------------- MODULE Spec2Model ----------------------------
(***************************************************************************)
(* The sighting logger of flightpi (flight_logger.py): log_flight turns a  *)
(* stream of sightings into rows of the flights table, coalescing a        *)
(* sighting into the freshest row of the same event_key whose last_seen is *)
(* not older than the sighting by more than EVENT_WINDOW_MINUTES.          *)
(*                                                                         *)
(* Text values.  hex, reg and callsign are character sequences (the code   *)
(* strips and concatenates them); a timestamp text is the tuple            *)
(* <<hour, minute, second>> of one fixed day, ordered as SQLite orders TEXT *)
(* (position by position, a proper prefix first); the other columns are    *)
(* opaque strings.  None/NULL has one marker per representation.           *)
(***************************************************************************)
EXTENDS Integers, Sequences, FiniteSets, TLC

VARIABLES
    flights,          \* the flights table: its rows in rowid order
    sqlite_sequence,  \* AUTOINCREMENT counter: the largest id ever handed out
    now,              \* the wall clock read by datetime.now(), in seconds
    calls,            \* history: one record per log_flight call made so far
    loop,             \* the poll loop of flight.py main(): its position,
                      \* its local variables and the screen
    procs,            \* the concurrent callers of log_flight: the position
                      \* and the local variables of each
    response,         \* the web server's last answer, with its request
    open_connections, \* the store connections that log_flight calls opened
                      \* and had not closed when they ended
    sse,              \* the /events stream of a subscriber: the generator's
                      \* last_id and the messages it has sent
    mil               \* the military-aircraft cache: the cache file, the
                      \* requests being handled and the network requests made

vars == <<flights, sqlite_sequence, now, calls, loop, procs, response,
          open_connections, sse, mil>>

-----------------------------------------------------------------------------
(* Bounds *)

MaxCalls == 3          \* log_flight calls explored by Spec
MaxFieldCalls == 3     \* log_flight calls explored by SpecFields
MaxIdentityCalls == 2  \* log_flight calls explored by SpecIdentity
MaxStoreCalls == 3     \* log_flight calls explored by SpecStore
MaxLoopCalls == 2      \* log_flight calls explored by SpecLoop
MaxConcurrentCalls == 3 \* log_flight calls explored by SpecConcurrent
MaxWebCalls == 3       \* log_flight calls explored by SpecWeb
MaxSseCalls == 3       \* log_flight calls explored by SpecSse
MaxMilRequests == 3    \* network requests explored by SpecMil
MaxTicks == 1          \* advances of the wall clock

-----------------------------------------------------------------------------
(* Values *)

EVENT_WINDOW_MINUTES == 20

NoneSeq == <<"<None>">>   \* None for hex / reg / callsign
NoneStr == "<None>"       \* None (NULL) for the opaque text and REAL columns
NoSeenAt == <<>>          \* seen_at absent, None or '' (all falsy)
BadSeenAt == <<99>>       \* a seen_at text that is not an ISO timestamp

IsIso(t) == Len(t) = 3

\* datetime.fromisoformat: the text of a timestamp to seconds of the day
fromisoformat(t) == t[1] * 3600 + t[2] * 60 + t[3]

\* datetime.isoformat(timespec="seconds"): seconds of the day to the text
isoformat(n) == << n \div 3600, (n % 3600) \div 60, n % 60 >>

\* SQLite's TEXT comparison a <= b
TextLE(a, b) ==
    \/ /\ Len(a) <= Len(b)
       /\ \A i \in 1..Len(a) : a[i] = b[i]
    \/ \E i \in 1..Len(a) :
          /\ i <= Len(b)
          /\ a[i] < b[i]
          /\ \A j \in 1..(i - 1) : a[j] = b[j]

RECURSIVE strip(_)
\* str.strip(): drop leading and trailing blanks
strip(s) ==
    IF s = <<>> THEN s
    ELSE IF Head(s) = " " THEN strip(Tail(s))
    ELSE IF s[Len(s)] = " " THEN strip(SubSeq(s, 1, Len(s) - 1))
    ELSE s

\* (row.get(k) or "")
OrEmpty(v) == IF v = NoneSeq THEN <<>> ELSE v

\* str.replace("|", "")
RemoveBars(s) == SelectSeq(s, LAMBDA c : c # "|")

DescFields == {"model", "manufacturer", "country", "country_iso", "owner",
               "airline_name", "origin_iata", "origin_name", "dest_iata",
               "dest_name"}

TelFields == {"altitude_ft", "ground_speed_kt", "distance_nm", "heading_deg"}

-----------------------------------------------------------------------------
(* flight_logger.py *)

\* mutant of _build_event_key: reg enters the key as it came
_build_event_key_raw_reg(row) ==
    LET hex_ == strip(OrEmpty(row.hex))
        reg  == OrEmpty(row.reg)
        cs   == strip(OrEmpty(row.callsign))
    IN  hex_ \o <<"|">> \o reg \o <<"|">> \o cs

_build_event_key(row) ==
    LET hex_ == strip(OrEmpty(row.hex))
        reg  == strip(OrEmpty(row.reg))
        cs   == strip(OrEmpty(row.callsign))
    IN  hex_ \o <<"|">> \o reg \o <<"|">> \o cs

\* mutant of Degenerate: the bars are not removed before the test
DegenerateKeepsBars(event_key) == event_key = <<>>

\* if not event_key.replace("|", "")
Degenerate(event_key) == RemoveBars(event_key) = <<>>

\* seen_at as log_flight uses it: the clock's reading when the field is falsy
EffectiveSeenAt(row, clock) ==
    IF row.seen_at = NoSeenAt THEN isoformat(clock) ELSE row.seen_at

\* mutant of CutoffIso: the window is a minute short
CutoffIsoShort(seen_at) ==
    isoformat(fromisoformat(seen_at) - (EVENT_WINDOW_MINUTES - 1) * 60)

\* cutoff_iso = (fromisoformat(seen_at) - timedelta(minutes=...)).isoformat()
CutoffIso(seen_at) ==
    isoformat(fromisoformat(seen_at) - EVENT_WINDOW_MINUTES * 60)

\* mutant of WindowRows: last_seen > ? for last_seen >= ?
WindowRowsStrict(tbl, event_key, cutoff_iso) ==
    { i \in DOMAIN tbl : /\ tbl[i].event_key = event_key
                         /\ tbl[i].last_seen # cutoff_iso
                         /\ TextLE(cutoff_iso, tbl[i].last_seen) }

\* WHERE event_key = ? AND last_seen >= ?
WindowRows(tbl, event_key, cutoff_iso) ==
    { i \in DOMAIN tbl : /\ tbl[i].event_key = event_key
                         /\ TextLE(cutoff_iso, tbl[i].last_seen) }

\* mutant of MatchRows: ORDER BY last_seen ASC for DESC
MatchRowsOldest(tbl, event_key, cutoff_iso) ==
    LET W == { i \in DOMAIN tbl : /\ tbl[i].event_key = event_key
                                  /\ TextLE(cutoff_iso, tbl[i].last_seen) }
    IN  { i \in W : \A j \in W : TextLE(tbl[i].last_seen, tbl[j].last_seen) }

\* ORDER BY last_seen DESC LIMIT 1: the rows the query may return (rows that
\* tie on last_seen come back in an order SQLite does not define)
MatchRows(tbl, event_key, cutoff_iso) ==
    LET W == WindowRows(tbl, event_key, cutoff_iso)
    IN  { i \in W : \A j \in W : TextLE(tbl[j].last_seen, tbl[i].last_seen) }

NullIf(x, y) == IF x = y THEN NoneStr ELSE x

Coalesce(x, y) == IF x # NoneStr THEN x ELSE y

\* mutant of Sticky: COALESCE(col, ?), an empty text is kept
StickyKeepsEmpty(old, new) == IF old # NoneStr THEN old ELSE new

\* COALESCE(NULLIF(col, ''), ?)
Sticky(old, new) == Coalesce(NullIf(old, ""), new)

\* mutant of UpdateRow: times_seen is not incremented
UpdateRowNoCount(f, row, seen_at) ==
    [ f EXCEPT
        !.last_seen       = seen_at,
        !.seen_at         = seen_at,
        !.altitude_ft     = row.altitude_ft,
        !.ground_speed_kt = row.ground_speed_kt,
        !.distance_nm     = row.distance_nm,
        !.heading_deg     = row.heading_deg,
        !.model           = Sticky(@, row.model),
        !.manufacturer    = Sticky(@, row.manufacturer),
        !.country         = Sticky(@, row.country),
        !.country_iso     = Sticky(@, row.country_iso),
        !.owner           = Sticky(@, row.owner),
        !.airline_name    = Sticky(@, row.airline_name),
        !.origin_iata     = Sticky(@, row.origin_iata),
        !.origin_name     = Sticky(@, row.origin_name),
        !.dest_iata       = Sticky(@, row.dest_iata),
        !.dest_name       = Sticky(@, row.dest_name) ]

\* mutant of UpdateRow: altitude_ft keeps its value when the sighting has none
UpdateRowStickyAltitude(f, row, seen_at) ==
    [ f EXCEPT
        !.last_seen       = seen_at,
        !.seen_at         = seen_at,
        !.times_seen      = @ + 1,
        !.altitude_ft     = IF row.altitude_ft # NoneStr
                            THEN row.altitude_ft ELSE @,
        !.ground_speed_kt = row.ground_speed_kt,
        !.distance_nm     = row.distance_nm,
        !.heading_deg     = row.heading_deg,
        !.model           = Sticky(@, row.model),
        !.manufacturer    = Sticky(@, row.manufacturer),
        !.country         = Sticky(@, row.country),
        !.country_iso     = Sticky(@, row.country_iso),
        !.owner           = Sticky(@, row.owner),
        !.airline_name    = Sticky(@, row.airline_name),
        !.origin_iata     = Sticky(@, row.origin_iata),
        !.origin_name     = Sticky(@, row.origin_name),
        !.dest_iata       = Sticky(@, row.dest_iata),
        !.dest_name       = Sticky(@, row.dest_name) ]

\* mutant of UpdateRow: first_seen is set along with last_seen
UpdateRowResetsFirstSeen(f, row, seen_at) ==
    [ f EXCEPT
        !.last_seen       = seen_at,
        !.first_seen      = seen_at,
        !.seen_at         = seen_at,
        !.times_seen      = @ + 1,
        !.altitude_ft     = row.altitude_ft,
        !.ground_speed_kt = row.ground_speed_kt,
        !.distance_nm     = row.distance_nm,
        !.heading_deg     = row.heading_deg,
        !.model           = Sticky(@, row.model),
        !.manufacturer    = Sticky(@, row.manufacturer),
        !.country         = Sticky(@, row.country),
        !.country_iso     = Sticky(@, row.country_iso),
        !.owner           = Sticky(@, row.owner),
        !.airline_name    = Sticky(@, row.airline_name),
        !.origin_iata     = Sticky(@, row.origin_iata),
        !.origin_name     = Sticky(@, row.origin_name),
        !.dest_iata       = Sticky(@, row.dest_iata),
        !.dest_name       = Sticky(@, row.dest_name) ]

\* mutant of UpdateRow: seen_at is left as the insert set it
UpdateRowKeepsSeenAt(f, row, seen_at) ==
    [ f EXCEPT
        !.last_seen       = seen_at,
        !.times_seen      = @ + 1,
        !.altitude_ft     = row.altitude_ft,
        !.ground_speed_kt = row.ground_speed_kt,
        !.distance_nm     = row.distance_nm,
        !.heading_deg     = row.heading_deg,
        !.model           = Sticky(@, row.model),
        !.manufacturer    = Sticky(@, row.manufacturer),
        !.country         = Sticky(@, row.country),
        !.country_iso     = Sticky(@, row.country_iso),
        !.owner           = Sticky(@, row.owner),
        !.airline_name    = Sticky(@, row.airline_name),
        !.origin_iata     = Sticky(@, row.origin_iata),
        !.origin_name     = Sticky(@, row.origin_name),
        !.dest_iata       = Sticky(@, row.dest_iata),
        !.dest_name       = Sticky(@, row.dest_name) ]

\* the UPDATE statement applied to the row it addresses
UpdateRow(f, row, seen_at) ==
    [ f EXCEPT
        !.last_seen       = seen_at,
        !.seen_at         = seen_at,
        !.times_seen      = @ + 1,
        !.altitude_ft     = row.altitude_ft,
        !.ground_speed_kt = row.ground_speed_kt,
        !.distance_nm     = row.distance_nm,
        !.heading_deg     = row.heading_deg,
        !.model           = Sticky(@, row.model),
        !.manufacturer    = Sticky(@, row.manufacturer),
        !.country         = Sticky(@, row.country),
        !.country_iso     = Sticky(@, row.country_iso),
        !.owner           = Sticky(@, row.owner),
        !.airline_name    = Sticky(@, row.airline_name),
        !.origin_iata     = Sticky(@, row.origin_iata),
        !.origin_name     = Sticky(@, row.origin_name),
        !.dest_iata       = Sticky(@, row.dest_iata),
        !.dest_name       = Sticky(@, row.dest_name) ]

\* mutant of UpdateStmt: WHERE event_key = (the key of the matched row)
UpdateStmtByKey(tbl, id, row, seen_at) ==
    [ i \in DOMAIN tbl |->
        IF \E j \in DOMAIN tbl :
              tbl[j].id = id /\ tbl[j].event_key = tbl[i].event_key
        THEN [ tbl[i] EXCEPT !.last_seen = seen_at, !.seen_at = seen_at,
                             !.times_seen = @ + 1 ]
        ELSE tbl[i] ]

\* UPDATE flights SET ... WHERE id = ?
UpdateStmt(tbl, id, row, seen_at) ==
    [ i \in DOMAIN tbl |->
        IF tbl[i].id = id THEN UpdateRow(tbl[i], row, seen_at) ELSE tbl[i] ]

\* mutant of NewRow: hex is stored stripped, as it enters the key
NewRowStripsHex(id, row, seen_at, event_key) ==
    [ id              |-> id,
      seen_at         |-> seen_at,
      hex             |-> strip(OrEmpty(row.hex)),
      reg             |-> row.reg,
      callsign        |-> row.callsign,
      type_code       |-> row.type_code,
      model           |-> row.model,
      manufacturer    |-> row.manufacturer,
      country         |-> row.country,
      country_iso     |-> row.country_iso,
      owner           |-> row.owner,
      airline_name    |-> row.airline_name,
      origin_iata     |-> row.origin_iata,
      origin_name     |-> row.origin_name,
      dest_iata       |-> row.dest_iata,
      dest_name       |-> row.dest_name,
      altitude_ft     |-> row.altitude_ft,
      ground_speed_kt |-> row.ground_speed_kt,
      distance_nm     |-> row.distance_nm,
      heading_deg     |-> row.heading_deg,
      event_key       |-> event_key,
      first_seen      |-> seen_at,
      last_seen       |-> seen_at,
      times_seen      |-> 1 ]

\* the row the INSERT statement adds
NewRow(id, row, seen_at, event_key) ==
    [ id              |-> id,
      seen_at         |-> seen_at,
      hex             |-> row.hex,
      reg             |-> row.reg,
      callsign        |-> row.callsign,
      type_code       |-> row.type_code,
      model           |-> row.model,
      manufacturer    |-> row.manufacturer,
      country         |-> row.country,
      country_iso     |-> row.country_iso,
      owner           |-> row.owner,
      airline_name    |-> row.airline_name,
      origin_iata     |-> row.origin_iata,
      origin_name     |-> row.origin_name,
      dest_iata       |-> row.dest_iata,
      dest_name       |-> row.dest_name,
      altitude_ft     |-> row.altitude_ft,
      ground_speed_kt |-> row.ground_speed_kt,
      distance_nm     |-> row.distance_nm,
      heading_deg     |-> row.heading_deg,
      event_key       |-> event_key,
      first_seen      |-> seen_at,
      last_seen       |-> seen_at,
      times_seen      |-> 1 ]

NoneValue == <<>>         \* None as a returned value; an id n is <<n>>

\* mutant of ReturnValue: the id of the affected row is returned
ReturnValueId(id) == <<id>>

\* the bare return statements of log_flight (declared -> None): what a call
\* that touched the row id hands back to its caller
ReturnValue(id) == NoneValue

\* history record of one call: the sighting, the observed_at the call used,
\* its key, what it did ("insert", "update" or "error"), the id it touched
\* the value it returned (meaningful when it did not raise) and the
\* exception it raised ("" when none)
Call(row, seen_at, event_key, op, id) ==
    [ row |-> row, seen_at |-> seen_at, event_key |-> event_key,
      op |-> op, id |-> id, returned |-> ReturnValue(id),
      raised |-> IF op = "error" THEN "ValueError" ELSE "" ]

\* mutant of _insert_new_event: the id counter is not advanced
_insert_new_event_same_id(row, seen_at, event_key) ==
    /\ sqlite_sequence' = sqlite_sequence
    /\ flights' = Append(flights,
                         NewRow(sqlite_sequence + 1, row, seen_at, event_key))
    /\ calls' = Append(calls, Call(row, seen_at, event_key, "insert",
                                   sqlite_sequence + 1))

_insert_new_event(row, seen_at, event_key) ==
    /\ sqlite_sequence' = sqlite_sequence + 1
    /\ flights' = Append(flights,
                         NewRow(sqlite_sequence + 1, row, seen_at, event_key))
    /\ calls' = Append(calls, Call(row, seen_at, event_key, "insert",
                                   sqlite_sequence + 1))

\* init_db(): conn = _connect() ... conn.commit(); conn.close()
InitDbConnection == <<"open", "close">>

\* the connections a call opens (_connect()) and closes (conn.close()), in
\* the order of its statements, up to the exit it takes: a return, the
\* ValueError of fromisoformat, or the statement of StoreSteps at which the
\* store raises.  No close is inside a finally clause or a with block.
ConnectionEvents(looked_up, exit) ==
    CASE exit = "init_db"    -> <<"open">>
      [] exit = "ValueError" -> InitDbConnection
      [] exit = "lookup"     -> InitDbConnection \o <<"open">>
      [] exit \in {"update", "update_commit"} ->
            InitDbConnection \o <<"open">>
      [] exit = "return_update" ->
            InitDbConnection \o <<"open", "close">>
      [] exit \in {"insert", "insert_commit"} ->
            InitDbConnection
              \o (IF looked_up THEN <<"open", "close">> ELSE <<>>)
              \o <<"open">>
      [] exit = "return_insert" ->
            InitDbConnection
              \o (IF looked_up THEN <<"open", "close">> ELSE <<>>)
              \o <<"open", "close">>

\* the connections of a call that are open when it ends
StillOpen(events) ==
    Len(SelectSeq(events, LAMBDA e : e = "open"))
      - Len(SelectSeq(events, LAMBDA e : e = "close"))

log_flight(row) ==
    LET seen_at   == EffectiveSeenAt(row, now)
        event_key == _build_event_key(row)
        looked_up == ~Degenerate(event_key) /\ IsIso(seen_at)
        exit      == IF Degenerate(event_key) THEN "return_insert"
                     ELSE IF ~IsIso(seen_at) THEN "ValueError"
                     ELSE IF MatchRows(flights, event_key,
                                       CutoffIso(seen_at)) # {}
                     THEN "return_update"
                     ELSE "return_insert"
    IN  /\ UNCHANGED now
        /\ open_connections' = open_connections
              + StillOpen(ConnectionEvents(looked_up, exit))
        /\ IF Degenerate(event_key)
           THEN _insert_new_event(row, seen_at, event_key)
           ELSE IF ~IsIso(seen_at)
           THEN \* datetime.fromisoformat raises ValueError
                /\ calls' = Append(calls,
                                   Call(row, seen_at, event_key, "error", 0))
                /\ UNCHANGED <<flights, sqlite_sequence>>
           ELSE LET M == MatchRows(flights, event_key, CutoffIso(seen_at))
                IN  IF M # {}
                    THEN \E i \in M :
                           /\ flights' = UpdateStmt(flights, flights[i].id,
                                                    row, seen_at)
                           /\ calls' = Append(calls,
                                  Call(row, seen_at, event_key, "update",
                                       flights[i].id))
                           /\ UNCHANGED sqlite_sequence
                    ELSE _insert_new_event(row, seen_at, event_key)

\* the places of a call where the store (sqlite3) can raise: init_db, the
\* SELECT, the UPDATE and its commit, the INSERT and its commit
StoreSteps ==
    {"init_db", "lookup", "update", "update_commit", "insert", "insert_commit"}

\* the history record of a call in which the store raised at a step
StoreErrorCall(row, seen_at, event_key, step) ==
    [ Call(row, seen_at, event_key, "error", 0)
        EXCEPT !.raised = "sqlite3.Error at " \o step ]

\* mutant of AfterTransaction: every statement is committed as it runs
AfterTransactionAutocommit(before, written, committed) == written

\* what the store holds after a connection ran its statement: the statement
\* runs inside a transaction that conn.commit() makes permanent; when the
\* commit does not happen the connection is dropped and SQLite rolls back
AfterTransaction(before, written, committed) ==
    IF committed THEN written ELSE before

\* log_flight when the store raises at a step the call reaches: nothing
\* catches the exception, so it leaves log_flight at that statement
log_flight_store_error(row, step) ==
    LET seen_at   == EffectiveSeenAt(row, now)
        event_key == _build_event_key(row)
        looks_up  == ~Degenerate(event_key) /\ IsIso(seen_at)
        looked_up == looks_up /\ step # "init_db"
        M         == IF looks_up
                     THEN MatchRows(flights, event_key, CutoffIso(seen_at))
                     ELSE {}
        inserts   == Degenerate(event_key) \/ (looks_up /\ M = {})
    IN  /\ step \in StoreSteps
        /\ step = "lookup" => looks_up
        /\ step \in {"update", "update_commit"} => M # {}
        /\ step \in {"insert", "insert_commit"} => inserts
        /\ UNCHANGED now
        /\ calls' = Append(calls, StoreErrorCall(row, seen_at, event_key, step))
        /\ open_connections' = open_connections
              + StillOpen(ConnectionEvents(looked_up, step))
        /\ CASE step = "update_commit" ->
                  \E i \in M :
                    /\ flights' = AfterTransaction(flights,
                                      UpdateStmt(flights, flights[i].id,
                                                 row, seen_at), FALSE)
                    /\ UNCHANGED sqlite_sequence
             [] step = "insert_commit" ->
                  /\ flights' = AfterTransaction(flights,
                                    Append(flights,
                                           NewRow(sqlite_sequence + 1, row,
                                                  seen_at, event_key)), FALSE)
                  /\ sqlite_sequence' = AfterTransaction(sqlite_sequence,
                                            sqlite_sequence + 1, FALSE)
             [] OTHER -> UNCHANGED <<flights, sqlite_sequence>>

-----------------------------------------------------------------------------
(* Sightings handed to log_flight *)

\* the clock starts at 01:00:00, so that no cutoff falls on the day before
Epoch == fromisoformat(<<1, 0, 0>>)

WindowSeconds == EVENT_WINDOW_MINUTES * 60

\* the content of a sighting: type_code, the descriptive fields of the
\* aircraft lookup, those of the route lookup, and the telemetry
Content(type_code, aircraft, route, alt, tel) ==
    [ type_code |-> type_code, aircraft |-> aircraft, route |-> route,
      alt |-> alt, tel |-> tel ]

\* a descriptive value: None and '' as they are, any other one made
\* distinct per field
DescVal(v, f) == IF v \in {NoneStr, ""} THEN v ELSE v \o ":" \o f

MkRow(ident, seen_at, c) ==
    [ seen_at         |-> seen_at,
      hex             |-> ident[1],
      reg             |-> ident[2],
      callsign        |-> ident[3],
      type_code       |-> c.type_code,
      model           |-> DescVal(c.aircraft, "model"),
      manufacturer    |-> DescVal(c.aircraft, "manufacturer"),
      country         |-> DescVal(c.aircraft, "country"),
      country_iso     |-> DescVal(c.aircraft, "country_iso"),
      owner           |-> DescVal(c.aircraft, "owner"),
      airline_name    |-> DescVal(c.route, "airline_name"),
      origin_iata     |-> DescVal(c.route, "origin_iata"),
      origin_name     |-> DescVal(c.route, "origin_name"),
      dest_iata       |-> DescVal(c.route, "dest_iata"),
      dest_name       |-> DescVal(c.route, "dest_name"),
      altitude_ft     |-> c.alt,
      ground_speed_kt |-> DescVal(c.tel, "gs"),
      distance_nm     |-> DescVal(c.tel, "dst"),
      heading_deg     |-> DescVal(c.tel, "track") ]

IdNone  == << NoneSeq, NoneSeq, NoneSeq >>             \* nothing known
IdEmpty == << <<>>, NoneSeq, <<>> >>                   \* hex '', callsign ''
IdA     == << <<"A">>, NoneSeq, NoneSeq >>             \* hex 'A'
IdAsp   == << <<" ", "A", " ">>, <<" ">>, NoneSeq >>   \* hex ' A ', reg ' '
IdC     == << NoneSeq, NoneSeq, <<"C">> >>             \* callsign 'C'

At(offset) == isoformat(Epoch + offset)

\* Spec: the timing of sightings of two aircraft and of unknown ones
Sightings ==
    { MkRow(ident, seen_at,
            Content("B738", "United", NoneStr, "30000", "1"))
        : ident \in {IdNone, IdA, IdC},
          seen_at \in { At(0), At(WindowSeconds - 1), At(WindowSeconds),
                        At(WindowSeconds + 1), NoSeenAt } }

\* SpecFields: one aircraft inside one window, with varying content
FieldContents ==
    { Content(NoneStr, NoneStr, NoneStr, NoneStr, NoneStr),
      Content("", "", "", "0", ""),
      Content("B738", "Acme", NoneStr, "30000", "1"),
      Content("B738", "", "KLM", NoneStr, "2"),
      Content("A320", "Other", "BA", "31000", NoneStr) }

FieldSightings ==
    { MkRow(IdA, seen_at, c)
        : seen_at \in {At(0), At(WindowSeconds)}, c \in FieldContents }

\* SpecIdentity: varying identity fields, with, without and with a
\* malformed timestamp
IdentityContents ==
    { Content("", "Acme", NoneStr, "30000", NoneStr),
      Content("A320", NoneStr, "", NoneStr, "2") }

IdentitySightings ==
    { MkRow(ident, seen_at, c)
        : ident \in {IdNone, IdEmpty, IdA, IdAsp, IdC},
          seen_at \in {At(0), At(2 * WindowSeconds + 1), NoSeenAt, BadSeenAt},
          c \in IdentityContents }

\* SpecStore: two identities around the window, with a store that may fail
StoreSightings ==
    { MkRow(ident, seen_at,
            Content("B738", "United", NoneStr, "30000", "1"))
        : ident \in {IdNone, IdA},
          seen_at \in { At(0), At(WindowSeconds + 1) } }

-----------------------------------------------------------------------------
(* flight.py: the poll loop of main() *)

\* str.upper() on the letters the aircraft below use
upper(s) ==
    [ i \in DOMAIN s |-> CASE s[i] = "a" -> "A"
                          [] s[i] = "c" -> "C"
                          [] s[i] = "n" -> "N"
                          [] OTHER -> s[i] ]

\* (ac.get(k) or "").strip().upper()
Cleaned(v) == upper(strip(OrEmpty(v)))

\* x or None
OrNone(s) == IF s = <<>> THEN NoneSeq ELSE s

NoKey == <<>>             \* last_key = None

\* key = (reg, callsign, hex_str)
LoopKey(ac) == << Cleaned(ac.r), Cleaned(ac.flight), Cleaned(ac.hex) >>

\* what fetch_nearest may return: an airliner with registration, callsign
\* and hex, and an aircraft known by its hex only
LoopAircraft ==
    { [ r |-> <<"n">>, flight |-> <<"c", " ">>, hex |-> <<"a">>,
        t |-> "B738", alt_baro |-> "30000" ],
      [ r |-> NoneSeq, flight |-> NoneSeq, hex |-> <<"c">>,
        t |-> NoneStr, alt_baro |-> NoneStr ] }

NoAircraft == [ r |-> NoneSeq, flight |-> NoneSeq, hex |-> NoneSeq,
                t |-> NoneStr, alt_baro |-> NoneStr ]

\* the state before the first pass of the while loop: the spinner is on the
\* screen, last_key = None and nothing is cached.  cached_aircraft,
\* cached_route and cached_photo hold the key whose lookup filled them
LoopStart ==
    [ pc |-> "fetch", ac |-> NoAircraft, last_key |-> NoKey,
      cached_aircraft |-> NoKey, cached_route |-> NoKey,
      cached_photo |-> NoKey, screen |-> <<"loading", NoKey>>,
      log |-> "none", module_exit |-> FALSE ]

\* the owner found by the aircraft lookup cached for a key (None when the
\* key has no registration) and the airline found by the route lookup
OwnerOf(key) ==
    IF key = NoKey \/ key[1] = <<>> THEN NoneStr ELSE "Acme"

AirlineOf(key) ==
    IF key = NoKey \/ key[2] = <<>> THEN NoneStr ELSE "KLM"

\* the row built for log_flight from the aircraft and the cached lookups
LoopRow(l, clock) ==
    LET key == LoopKey(l.ac)
    IN  MkRow(<< OrNone(key[3]), OrNone(key[1]), OrNone(key[2]) >>,
              isoformat(clock),
              Content(l.ac.t, OwnerOf(l.cached_aircraft),
                      AirlineOf(l.cached_route), l.ac.alt_baro, "1"))

\* ac = fetch_nearest(...): an aircraft, nothing in range, or an exception
FetchNearest ==
    /\ loop.pc = "fetch"
    /\ \/ \E ac \in LoopAircraft :
            loop' = [loop EXCEPT !.pc = "enrich", !.ac = ac, !.log = "none"]
       \/ loop' = [loop EXCEPT !.pc = "idle_sleep", !.ac = NoAircraft,
                               !.log = "none",
                               !.screen = <<"loading", NoKey>>]
       \/ loop' = [loop EXCEPT !.pc = "error", !.log = "none"]
    /\ UNCHANGED <<flights, sqlite_sequence, now, calls, procs,
                   response, open_connections, sse, mil>>

\* if key != last_key: the three lookups in turn, then last_key = key.  A
\* lookup is made when its field is not empty; one that raises ends the
\* block with the earlier assignments done and last_key as it was
Enrich ==
    /\ loop.pc = "enrich"
    /\ LET key == LoopKey(loop.ac)
       IN  IF key = loop.last_key
           THEN loop' = [loop EXCEPT !.pc = "log"]
           ELSE \/ loop' = [loop EXCEPT !.pc = "log",
                                        !.cached_aircraft = key,
                                        !.cached_route = key,
                                        !.cached_photo = key,
                                        !.last_key = key]
                \/ /\ key[1] # <<>>
                   /\ loop' = [loop EXCEPT !.pc = "error"]
                \/ /\ key[2] # <<>>
                   /\ loop' = [loop EXCEPT !.pc = "error",
                                           !.cached_aircraft = key]
                \/ /\ key[3] # <<>>
                   /\ loop' = [loop EXCEPT !.pc = "error",
                                           !.cached_aircraft = key,
                                           !.cached_route = key]
    /\ UNCHANGED <<flights, sqlite_sequence, now, calls, procs,
                   response, open_connections, sse, mil>>

\* mutant of AfterLogFailure: the exception of log_flight is left to the
\* handler of the cycle
AfterLogFailureUncaught(l) == [l EXCEPT !.pc = "error", !.log = "failed"]

\* try: log_flight(row) / except Exception: pass
AfterLogFailure(l) == [l EXCEPT !.pc = "draw", !.log = "failed"]

\* the call of log_flight in the cycle: it returns, or it raises
LogInLoop ==
    /\ loop.pc = "log"
    /\ Len(calls) < MaxLoopCalls
    /\ \/ /\ log_flight(LoopRow(loop, now))
          /\ loop' = [loop EXCEPT !.pc = "draw", !.log = "ok"]
       \/ /\ \E step \in StoreSteps :
                log_flight_store_error(LoopRow(loop, now), step)
          /\ loop' = AfterLogFailure(loop)
    /\ UNCHANGED <<procs, response, sse, mil>>

\* draw_card(...): the card of the sighting is shown, or drawing raises
DrawCard ==
    /\ loop.pc = "draw"
    /\ \/ loop' = [loop EXCEPT !.pc = "sleep",
                               !.screen = <<"card", LoopKey(loop.ac)>>]
       \/ loop' = [loop EXCEPT !.pc = "error"]
    /\ UNCHANGED <<flights, sqlite_sequence, now, calls, procs,
                   response, open_connections, sse, mil>>

\* except Exception as e: draw_error(disp, str(e)); an exception raised by
\* draw_error itself leaves main()
DrawError ==
    /\ loop.pc = "error"
    /\ \/ loop' = [loop EXCEPT !.pc = "sleep", !.screen = <<"error", NoKey>>]
       \/ loop' = [loop EXCEPT !.pc = "crashed"]
    /\ UNCHANGED <<flights, sqlite_sequence, now, calls, procs,
                   response, open_connections, sse, mil>>

\* time.sleep(REFRESH_S), at the end of the cycle or before continue
Sleep ==
    /\ loop.pc \in {"sleep", "idle_sleep"}
    /\ loop' = [loop EXCEPT !.pc = "fetch"]
    /\ UNCHANGED <<flights, sqlite_sequence, now, calls, procs,
                   response, open_connections, sse, mil>>

\* Ctrl-C: inside the try block it is caught (break, then module_exit);
\* in the handler of the cycle and in the sleep after it nothing catches it
KeyboardInterrupt ==
    /\ \/ /\ loop.pc \in {"fetch", "enrich", "log", "draw", "idle_sleep"}
          /\ loop' = [loop EXCEPT !.pc = "exited", !.module_exit = TRUE]
       \/ /\ loop.pc \in {"error", "sleep"}
          /\ loop' = [loop EXCEPT !.pc = "killed"]
    /\ UNCHANGED <<flights, sqlite_sequence, now, calls, procs,
                   response, open_connections, sse, mil>>

-----------------------------------------------------------------------------
(* Concurrent callers of log_flight *)

\* Each caller runs log_flight on a connection of its own.  The SELECT reads
\* the committed table; the UPDATE with its commit, and the INSERT with its
\* commit, each run under SQLite's write lock.  Between a caller's SELECT and
\* its write, other callers may write.

Procs == {1, 2}

\* cur.fetchone() of a SELECT that found no row; a fetched row is
\* <<id, times_seen>>
NoMatch == <<>>

\* a caller that is not inside log_flight
Idle == [ pc |-> "idle", row |-> <<>>, seen_at |-> NoSeenAt,
          event_key |-> <<>>, match |-> NoMatch, id |-> 0 ]

\* SpecConcurrent: sightings of one aircraft and of unknown ones, at times
\* that all lie within one window
ConcurrentSightings ==
    { MkRow(ident, seen_at,
            Content("B738", "United", NoneStr, "30000", "1"))
        : ident \in {IdNone, IdA},
          seen_at \in { At(0), At(WindowSeconds) } }

\* the callers inside log_flight that have not written yet
InFlight == { p \in Procs : procs[p].pc = "looked" }

\* the call up to match = cur.fetchone(): a degenerate key goes straight to
\* _insert_new_event, a malformed seen_at raises in fromisoformat
CallLookup(p) ==
    /\ procs[p].pc = "idle"
    /\ Len(calls) + Cardinality(InFlight) < MaxConcurrentCalls
    /\ \E row \in ConcurrentSightings :
         LET seen_at   == EffectiveSeenAt(row, now)
             event_key == _build_event_key(row)
             entered   == [ pc |-> "looked", row |-> row, seen_at |-> seen_at,
                            event_key |-> event_key, match |-> NoMatch,
                            id |-> 0 ]
         IN  IF Degenerate(event_key)
             THEN /\ _insert_new_event(row, seen_at, event_key)
                  /\ procs' = [procs EXCEPT ![p] =
                        [entered EXCEPT !.pc = "done",
                                        !.id = sqlite_sequence + 1]]
             ELSE IF ~IsIso(seen_at)
             THEN /\ calls' = Append(calls,
                                     Call(row, seen_at, event_key, "error", 0))
                  /\ procs' = [procs EXCEPT ![p] =
                                 [entered EXCEPT !.pc = "done"]]
                  /\ UNCHANGED <<flights, sqlite_sequence>>
             ELSE LET M == MatchRows(flights, event_key, CutoffIso(seen_at))
                  IN  /\ IF M = {}
                         THEN procs' = [procs EXCEPT ![p] = entered]
                         ELSE \E i \in M :
                                procs' = [procs EXCEPT ![p] =
                                  [entered EXCEPT !.match =
                                     <<flights[i].id,
                                       flights[i].times_seen>>]]
                      /\ UNCHANGED <<flights, sqlite_sequence, calls>>
    /\ UNCHANGED <<now, loop, response, open_connections, sse, mil>>

\* mutant of MatchAtWrite: the lookup is made again when the call writes
MatchAtWriteFresh(pr) ==
    LET M == MatchRows(flights, pr.event_key, CutoffIso(pr.seen_at))
    IN  IF M = {} THEN NoMatch
        ELSE LET i == CHOOSE i \in M : TRUE
             IN  <<flights[i].id, flights[i].times_seen>>

\* if match: the call writes by the row its own SELECT fetched
MatchAtWrite(pr) == pr.match

\* mutant of UpdateByMatch: times_seen is written back from the value the
\* SELECT fetched
UpdateByMatchWritesBack(tbl, match, row, seen_at) ==
    [ i \in DOMAIN tbl |->
        IF tbl[i].id = match[1]
        THEN [ UpdateRow(tbl[i], row, seen_at)
                 EXCEPT !.times_seen = match[2] + 1 ]
        ELSE tbl[i] ]

\* the UPDATE as the call issues it: of the fetched match = (id, times_seen)
\* only match["id"] is used, times_seen = times_seen + 1 is computed by the
\* statement from the stored value
UpdateByMatch(tbl, match, row, seen_at) ==
    UpdateStmt(tbl, match[1], row, seen_at)

\* the rest of the call: UPDATE ... WHERE id = match["id"] and commit, or
\* _insert_new_event
CallWrite(p) ==
    LET pr == procs[p]
        m  == MatchAtWrite(pr)
    IN  /\ pr.pc = "looked"
        /\ IF m # NoMatch
           THEN /\ flights' = UpdateByMatch(flights, m, pr.row, pr.seen_at)
                /\ calls' = Append(calls, Call(pr.row, pr.seen_at,
                                               pr.event_key, "update", m[1]))
                /\ procs' = [procs EXCEPT ![p].pc = "done", ![p].id = m[1]]
                /\ UNCHANGED sqlite_sequence
           ELSE /\ _insert_new_event(pr.row, pr.seen_at, pr.event_key)
                /\ procs' = [procs EXCEPT ![p].pc = "done",
                                          ![p].id = sqlite_sequence + 1]
        /\ UNCHANGED <<now, loop, response, open_connections, sse, mil>>

\* log_flight has returned; the caller may call again
CallReturn(p) ==
    /\ procs[p].pc = "done"
    /\ procs' = [procs EXCEPT ![p] = Idle]
    /\ UNCHANGED <<flights, sqlite_sequence, now, calls, loop,
                   response, open_connections, sse, mil>>

-----------------------------------------------------------------------------
(* web_server.py: the detail of one aircraft *)

NoResponse == <<>>        \* no request has been answered yet

\* WHERE reg = ? AND hex = ?, each condition present when its parameter is
\* not empty: the rows of the aircraft.  A NULL column equals no parameter.
DetailRows(reg, hex_code) ==
    { i \in DOMAIN flights :
        /\ reg = <<>> \/ flights[i].reg = reg
        /\ hex_code = <<>> \/ flights[i].hex = hex_code }

\* MIN(seen_at) and MAX(seen_at) over the rows W, in TEXT order
MinSeenAt(W) ==
    LET i == CHOOSE i \in W :
                \A j \in W : TextLE(flights[i].seen_at, flights[j].seen_at)
    IN  flights[i].seen_at

MaxSeenAt(W) ==
    LET i == CHOOSE i \in W :
                \A j \in W : TextLE(flights[j].seen_at, flights[i].seen_at)
    IN  flights[i].seen_at

\* the columns of the most recent row that the detail carries
DetailColumns ==
    { "seen_at", "hex", "reg", "callsign", "type_code" }
      \cup DescFields \cup TelFields

\* get_flight_detail(reg, hex_code): None, or <<detail>> with the columns of
\* the row of the greatest id and the aggregates COUNT(*), MIN(seen_at) and
\* MAX(seen_at) over the rows of the aircraft
get_flight_detail(reg, hex_code) ==
    LET r == Cleaned(reg)
        h == Cleaned(hex_code)
        W == DetailRows(r, h)
    IN  IF r = <<>> /\ h = <<>> THEN NoneValue
        ELSE IF W = {} THEN NoneValue
        ELSE LET last == CHOOSE i \in W :
                            \A j \in W : flights[j].id <= flights[i].id
             IN  << [ f \in DetailColumns
                          \cup {"total_seen", "first_seen", "last_seen"} |->
                        CASE f = "total_seen" -> Cardinality(W)
                          [] f = "first_seen" -> MinSeenAt(W)
                          [] f = "last_seen"  -> MaxSeenAt(W)
                          [] OTHER            -> flights[last][f] ] >>

RECURSIVE OrderByIdDesc(_)
\* ORDER BY id DESC over the rows with indices W
OrderByIdDesc(W) ==
    IF W = {} THEN <<>>
    ELSE LET i == CHOOSE i \in W : \A j \in W : flights[j].id <= flights[i].id
         IN  <<flights[i]>> \o OrderByIdDesc(W \ {i})

\* LIMIT ?: the first n rows, all of them when n is negative
Limit(rows, n) ==
    IF n < 0 \/ n >= Len(rows) THEN rows ELSE SubSeq(rows, 1, n)

\* get_recent_flights(limit): SELECT * FROM flights ORDER BY id DESC LIMIT ?
get_recent_flights(limit) == Limit(OrderByIdDesc(DOMAIN flights), limit)

\* the limit parameters of the requests
Limits == { 0, 1, 2 }

\* GET of the list of recent flights
GetRecentFlights ==
    /\ \E limit \in Limits :
         response' = [ request |-> <<"recent", limit>>,
                       body    |-> get_recent_flights(limit) ]
    /\ UNCHANGED <<flights, sqlite_sequence, now, calls, loop,
                   procs, open_connections, sse, mil>>

IdAN == << <<"A">>, <<"N">>, NoneSeq >>    \* hex 'A', reg 'N'

\* SpecWeb: sightings of an aircraft known by hex and registration, or by
\* hex only, and of unknown ones, within one window and beyond it
WebSightings ==
    { MkRow(ident, seen_at,
            Content("B738", "United", NoneStr, "30000", "1"))
        : ident \in {IdNone, IdA, IdAN},
          seen_at \in { At(0), At(WindowSeconds),
                        At(2 * WindowSeconds + 1) } }

\* the reg and hex parameters of the requests
DetailRegs == { NoneSeq, <<"n">> }
DetailHexes == { NoneSeq, <<"a", " ">> }

\* GET of the detail of an aircraft
GetFlightDetail ==
    /\ \E reg \in DetailRegs, hex_code \in DetailHexes :
         response' = [ request |-> <<"detail", reg, hex_code>>,
                       body    |-> get_flight_detail(reg, hex_code) ]
    /\ UNCHANGED <<flights, sqlite_sequence, now, calls, loop,
                   procs, open_connections, sse, mil>>

-----------------------------------------------------------------------------
(* web_server.py: the /events stream *)

\* the generator of a connected subscriber: last_id = None (0 here: no row
\* has the id 0) and nothing sent yet
SseStart == [ last_id |-> 0, sent |-> <<>> ]

\* SpecSse: sightings of one aircraft and of unknown ones, within one window
\* and beyond it
SseSightings ==
    { MkRow(ident, seen_at,
            Content("B738", "United", NoneStr, "30000", "1"))
        : ident \in {IdNone, IdA},
          seen_at \in { At(0), At(WindowSeconds + 1) } }

\* SELECT * FROM flights ORDER BY id DESC LIMIT 1
MostRecentRow == Limit(OrderByIdDesc(DOMAIN flights), 1)

\* one turn of the generator's loop, every 2 seconds: the row of the greatest
\* id is sent when its id is not last_id; an exception is swallowed
SsePoll ==
    /\ \/ /\ MostRecentRow # <<>>
          /\ MostRecentRow[1].id # sse.last_id
          /\ sse' = [ last_id |-> MostRecentRow[1].id,
                      sent    |-> Append(sse.sent, MostRecentRow[1]) ]
       \/ /\ MostRecentRow # <<>>
          /\ MostRecentRow[1].id = sse.last_id
          /\ UNCHANGED sse
       \/ /\ MostRecentRow = <<>>
          /\ UNCHANGED sse
       \/ UNCHANGED sse       \* except Exception: pass
    /\ UNCHANGED <<flights, sqlite_sequence, now, calls, loop, procs,
                   response, open_connections, mil>>

-----------------------------------------------------------------------------
(* web_server.py: the cache of military aircraft details *)

\* Flask's development server (app.run) handles each request on a thread of
\* its own; get_mil_aircraft_details holds no lock.

Threads == {1, 2}

\* a thread that is not handling a /api/mil_detail request
MilIdle == [ pc |-> "idle", hex |-> <<>>, cache |-> {} ]

\* no cache file; no request being handled; no network request made and no
\* result stored yet.  The cache maps a hex to its details: the set of the
\* hexes it holds stands for it.
MilStart == [ file     |-> {},
              reqs     |-> [t \in Threads |-> MilIdle],
              requests |-> <<>>,
              stored   |-> {} ]

\* the hex parameters of the requests
MilHexes == { NoneSeq, <<"a">>, <<"c", " ">> }

\* get_mil_aircraft_details up to the cache test: {"error": "no_hex"} for an
\* empty hex, the cached details when load_mil_cache() holds the hex, and
\* otherwise on to the network with the cache as loaded
MilLoad(t) ==
    /\ mil.reqs[t].pc = "idle"
    /\ Len(mil.requests) < MaxMilRequests
    /\ \E hex_code \in MilHexes :
         LET h == Cleaned(hex_code)
         IN  IF h = <<>> \/ h \in mil.file
             THEN UNCHANGED mil
             ELSE mil' = [mil EXCEPT !.reqs[t] =
                            [ pc |-> "get", hex |-> h, cache |-> mil.file ]]
    /\ UNCHANGED <<flights, sqlite_sequence, now, calls, loop, procs,
                   response, open_connections, sse>>

\* requests.get(url, timeout=6): the details arrive and are put into the
\* loaded cache, or the request fails and a lookup_failed error is returned
MilGet(t) ==
    /\ mil.reqs[t].pc = "get"
    /\ \/ mil' = [mil EXCEPT
                    !.requests = Append(@, mil.reqs[t].hex),
                    !.reqs[t].cache = @ \cup {mil.reqs[t].hex},
                    !.reqs[t].pc = "save"]
       \/ mil' = [mil EXCEPT
                    !.requests = Append(@, mil.reqs[t].hex),
                    !.reqs[t] = MilIdle]
    /\ UNCHANGED <<flights, sqlite_sequence, now, calls, loop, procs,
                   response, open_connections, sse>>

\* save_mil_cache(cache): the file is replaced by the thread's cache
MilSave(t) ==
    /\ mil.reqs[t].pc = "save"
    /\ mil' = [mil EXCEPT !.file = mil.reqs[t].cache,
                          !.stored = @ \cup {mil.reqs[t].hex},
                          !.reqs[t] = MilIdle]
    /\ UNCHANGED <<flights, sqlite_sequence, now, calls, loop, procs,
                   response, open_connections, sse>>

-----------------------------------------------------------------------------
(* The state machine *)

Init ==
    /\ flights = <<>>
    /\ sqlite_sequence = 0
    /\ now = Epoch
    /\ calls = <<>>
    /\ loop = LoopStart
    /\ procs = [p \in Procs |-> Idle]
    /\ response = NoResponse
    /\ open_connections = 0
    /\ sse = SseStart
    /\ mil = MilStart

\* time passes: the wall clock moves on by a little more than the window
Tick ==
    /\ now < Epoch + MaxTicks * (WindowSeconds + 1)
    /\ now' = now + WindowSeconds + 1
    /\ UNCHANGED <<flights, sqlite_sequence, calls, loop, procs,
                   response, open_connections, sse, mil>>

LogStep ==
    /\ \E row \in Sightings : Len(calls) < MaxCalls /\ log_flight(row)
    /\ UNCHANGED <<loop, procs, response, sse, mil>>

LogFieldStep ==
    /\ \E row \in FieldSightings :
          Len(calls) < MaxFieldCalls /\ log_flight(row)
    /\ UNCHANGED <<loop, procs, response, sse, mil>>

LogIdentityStep ==
    /\ \E row \in IdentitySightings :
          Len(calls) < MaxIdentityCalls /\ log_flight(row)
    /\ UNCHANGED <<loop, procs, response, sse, mil>>

LogStoreStep ==
    /\ \E row \in StoreSightings :
          Len(calls) < MaxStoreCalls /\ log_flight(row)
    /\ UNCHANGED <<loop, procs, response, sse, mil>>

LogStoreErrorStep ==
    /\ \E row \in StoreSightings : \E step \in StoreSteps :
          Len(calls) < MaxStoreCalls /\ log_flight_store_error(row, step)
    /\ UNCHANGED <<loop, procs, response, sse, mil>>

Next == LogStep \/ Tick

NextFields == LogFieldStep \/ Tick

NextIdentity == LogIdentityStep \/ Tick

NextStore == LogStoreStep \/ LogStoreErrorStep \/ Tick

\* the polls are REFRESH_S = 12 seconds apart, far inside the window: the
\* cycle's calls are taken at one reading of the clock
NextLoop ==
    \/ FetchNearest
    \/ Enrich
    \/ LogInLoop
    \/ DrawCard
    \/ DrawError
    \/ Sleep
    \/ KeyboardInterrupt

Spec == Init /\ [][Next]_vars

SpecStore == Init /\ [][NextStore]_vars

SpecLoop == Init /\ [][NextLoop]_vars

\* the interpreter runs the statement the loop is at: draw_card, draw_error
\* and time.sleep come to an end; fetching, enrichment and logging wait for
\* the network and the disk and are owed nothing, and neither is Ctrl-C
LoopFairness ==
    /\ WF_vars(DrawCard)
    /\ WF_vars(DrawError)
    /\ WF_vars(Sleep)

SpecLoopFair == SpecLoop /\ LoopFairness

SpecFields == Init /\ [][NextFields]_vars

SpecIdentity == Init /\ [][NextIdentity]_vars

LogWebStep ==
    /\ Len(calls) < MaxWebCalls
    /\ \E row \in WebSightings : log_flight(row)
    /\ UNCHANGED <<loop, procs, response, sse, mil>>

NextWeb == LogWebStep \/ GetFlightDetail \/ GetRecentFlights

SpecWeb == Init /\ [][NextWeb]_vars

LogSseStep ==
    /\ Len(calls) < MaxSseCalls
    /\ \E row \in SseSightings : log_flight(row)
    /\ UNCHANGED <<loop, procs, response, sse, mil>>

NextSse == LogSseStep \/ SsePoll

SpecSse == Init /\ [][NextSse]_vars

\* the generator keeps running while the subscriber is connected
SpecSseFair == SpecSse /\ WF_vars(SsePoll)

NextMil == \E t \in Threads : MilLoad(t) \/ MilGet(t) \/ MilSave(t)

SpecMil == Init /\ [][NextMil]_vars

NextConcurrent ==
    \E p \in Procs : CallLookup(p) \/ CallWrite(p) \/ CallReturn(p)

SpecConcurrent == Init /\ [][NextConcurrent]_vars

-----------------------------------------------------------------------------
(* What one step did to the table *)

\* the step was a log_flight call
Stepped == Len(calls') = Len(calls) + 1

\* the call of the step: its sighting and the observed_at it used
TheCall == calls'[Len(calls')]

\* one row was added and every row that existed is as it was
Inserted ==
    /\ Len(flights') = Len(flights) + 1
    /\ \A i \in DOMAIN flights : flights'[i] = flights[i]

\* the rows that existed and are no longer as they were
ChangedRows ==
    { i \in DOMAIN flights : i > Len(flights') \/ flights'[i] # flights[i] }

\* no row was added or removed and row i is the only one that changed
UpdatedOnly(i) ==
    /\ Len(flights') = Len(flights)
    /\ ChangedRows = {i}

Seconds(t) == t[1] * 3600 + t[2] * 60 + t[3]

\* the identity fields of a sighting or a row are all empty or absent
EmptyIdent(r) ==
    /\ r.hex \in {NoneSeq, <<>>}
    /\ r.reg \in {NoneSeq, <<>>}
    /\ r.callsign \in {NoneSeq, <<>>}

DegenerateKey == <<"|", "|">>

-----------------------------------------------------------------------------
(* C1 *)

\* the rows of the call's key whose last_seen is not more than 20 minutes
\* before the call's observed_at
InWindow(c) ==
    { i \in DOMAIN flights :
        /\ flights[i].event_key = c.event_key
        /\ Seconds(flights[i].last_seen) >= Seconds(c.seen_at) - 20 * 60 }

\* C1: a sighting with a non-degenerate key updates an event if and only if
\* some event of exactly its key has last_seen >= observed_at - 20 minutes,
\* and then it updates one with the greatest last_seen among those; otherwise
\* it inserts a new event.  With an only event at last_seen = T, a sighting
\* at T + 20min - 1s updates it and one at T + 20min + 1s inserts.
C1_WindowMatch ==
    [][ (Stepped /\ TheCall.op # "error"
                 /\ RemoveBars(TheCall.event_key) # <<>>) =>
        LET c == TheCall
            W == InWindow(c)
            Same == { i \in DOMAIN flights :
                        flights[i].event_key = c.event_key }
        IN  /\ c.event_key = _build_event_key(c.row)
            /\ IF W # {}
               THEN \E i \in W :
                      /\ UpdatedOnly(i)
                      /\ \A j \in W : Seconds(flights[j].last_seen)
                                        <= Seconds(flights[i].last_seen)
               ELSE /\ Inserted
                    /\ flights'[Len(flights')].event_key = c.event_key
            /\ \A i \in Same :
                 Same = {i} =>
                   /\ Seconds(c.seen_at)
                        = Seconds(flights[i].last_seen) + 20 * 60 - 1
                      => UpdatedOnly(i)
                   /\ Seconds(c.seen_at)
                        = Seconds(flights[i].last_seen) + 20 * 60 + 1
                      => Inserted
      ]_vars

\* two events of one key are in the window of the third call, which updated
\* the fresher one (the second) and left the first alone
C1_Witness ==
    /\ Len(calls) = 3
    /\ Len(flights) = 2
    /\ flights[1].event_key = flights[2].event_key
    /\ calls[3].op = "update"
    /\ calls[3].id = flights[2].id
    /\ calls[3].event_key = flights[1].event_key
    /\ Seconds(flights[1].last_seen) >= Seconds(calls[3].seen_at) - 20 * 60
    /\ flights[2].last_seen = calls[3].seen_at
    /\ flights[2].times_seen = 2
    /\ flights[1].times_seen = 1

-----------------------------------------------------------------------------
(* C2 *)

\* the query times at which the set of events inside the window changes
QueryTimes ==
    UNION { { Seconds(flights[i].last_seen),
              Seconds(flights[i].last_seen) + 20 * 60 }
            : i \in { j \in DOMAIN flights : IsIso(flights[j].last_seen) } }

\* the events of a key whose last_seen lies in the 20 minutes up to time q
OpenAt(key, q) ==
    { i \in DOMAIN flights :
        /\ flights[i].event_key = key
        /\ IsIso(flights[i].last_seen)
        /\ q - 20 * 60 <= Seconds(flights[i].last_seen)
        /\ Seconds(flights[i].last_seen) <= q }

KeyInOrder(key) ==
    \A a, b \in DOMAIN calls :
        (a < b /\ calls[a].event_key = key /\ calls[b].event_key = key
               /\ calls[a].op # "error" /\ calls[b].op # "error")
        => Seconds(calls[a].seen_at) <= Seconds(calls[b].seen_at)

-----------------------------------------------------------------------------
(* C3 *)

\* C3: every sighting whose hex, reg and callsign are all empty or absent
\* inserts a new event and modifies no existing row; N such sightings leave
\* N events, each with times_seen = 1 and the degenerate key
C3_DegenerateAlwaysInserts ==
    /\ [] /\ \A i \in DOMAIN flights :
               EmptyIdent(flights[i]) =>
                 /\ flights[i].times_seen = 1
                 /\ flights[i].event_key = DegenerateKey
          /\ Cardinality({ i \in DOMAIN flights : EmptyIdent(flights[i]) })
               = Cardinality({ k \in DOMAIN calls : EmptyIdent(calls[k].row) })
    /\ [][ /\ (Stepped /\ EmptyIdent(TheCall.row)) => Inserted
           /\ \A i \in DOMAIN flights :
                EmptyIdent(flights[i]) =>
                  /\ i \in DOMAIN flights'
                  /\ flights'[i] = flights[i]
         ]_vars

\* two sightings without identity at one observed_at made two events
C3_Witness ==
    /\ Len(calls) = 2
    /\ Len(flights) = 2
    /\ EmptyIdent(calls[1].row)
    /\ EmptyIdent(calls[2].row)
    /\ calls[1].row.hex # calls[2].row.hex
    /\ flights[1].last_seen = flights[2].last_seen
    /\ flights[1].id # flights[2].id

-----------------------------------------------------------------------------
(* C4 *)

\* the calls that updated, and those that inserted or updated, the event id
UpdatesOf(id) ==
    { k \in DOMAIN calls : calls[k].op = "update" /\ calls[k].id = id }

SightingsOf(id) ==
    { k \in DOMAIN calls : calls[k].op # "error" /\ calls[k].id = id }

\* C4: every event has times_seen >= 1, equal to 1 plus the number of calls
\* that updated it (so to the number of sightings coalesced into it); a call
\* adds exactly one to the event it updates and changes no other count
C4_TimesSeen ==
    /\ [] \A i \in DOMAIN flights :
            /\ flights[i].times_seen >= 1
            /\ flights[i].times_seen
                 = 1 + Cardinality(UpdatesOf(flights[i].id))
            /\ flights[i].times_seen = Cardinality(SightingsOf(flights[i].id))
    /\ [][ \A i \in DOMAIN flights :
             /\ i \in DOMAIN flights'
             /\ flights'[i].times_seen =
                  IF flights'[i] # flights[i]
                  THEN flights[i].times_seen + 1
                  ELSE flights[i].times_seen
         ]_vars

\* three sightings coalesced into one event
C4_Witness ==
    /\ Len(calls) = 3
    /\ Len(flights) = 1
    /\ flights[1].times_seen = 3

-----------------------------------------------------------------------------
(* C5 *)

\* C5 as stated: every event has first_seen <= last_seen and no call ever
\* decreases the last_seen of an existing event
C5_SeenOrder ==
    /\ [] \A i \in DOMAIN flights :
            TextLE(flights[i].first_seen, flights[i].last_seen)
    /\ [][ \A i \in DOMAIN flights :
             /\ i \in DOMAIN flights'
             /\ TextLE(flights[i].last_seen, flights'[i].last_seen)
         ]_vars

-----------------------------------------------------------------------------
(* C6 *)

IsEmpty(v) == v \in {NoneStr, ""}

\* the sightings coalesced into the event id, creation first
CoalescedInto(id) ==
    SelectSeq(calls, LAMBDA c : c.op # "error" /\ c.id = id)

RECURSIVE FirstNonEmpty(_, _)
\* the first non-empty value the sightings cs supplied for field f, None
\* when they supplied none
FirstNonEmpty(cs, f) ==
    IF cs = <<>> THEN NoneStr
    ELSE IF ~IsEmpty(Head(cs).row[f]) THEN Head(cs).row[f]
    ELSE FirstNonEmpty(Tail(cs), f)

\* C6: each descriptive field of an event holds the first non-empty value
\* supplied for it by the sightings coalesced into the event, or is empty
\* when none supplied one; once non-empty it is never changed
C6_StickyFields ==
    /\ [] \A i \in DOMAIN flights : \A f \in DescFields :
            LET v == FirstNonEmpty(CoalescedInto(flights[i].id), f)
            IN  IF IsEmpty(v) THEN IsEmpty(flights[i][f])
                ELSE flights[i][f] = v
    /\ [][ \A i \in DOMAIN flights : \A f \in DescFields :
             ~IsEmpty(flights[i][f]) =>
                /\ i \in DOMAIN flights'
                /\ flights'[i][f] = flights[i][f]
         ]_vars

\* owner '' at creation, then Acme, then another owner: Acme stays; the
\* airline name first supplied by the third sighting is recorded
C6_Witness ==
    /\ Len(calls) = 3
    /\ Len(flights) = 1
    /\ calls[1].row.owner = ""
    /\ calls[2].row.owner = "Acme:owner"
    /\ calls[3].row.owner = "Other:owner"
    /\ flights[1].owner = "Acme:owner"
    /\ IsEmpty(calls[1].row.airline_name)
    /\ IsEmpty(calls[2].row.airline_name)
    /\ flights[1].airline_name = "BA:airline_name"

-----------------------------------------------------------------------------
(* C7 *)

\* C7: after a call that inserts or updates an event, the event's
\* altitude_ft, ground_speed_kt, distance_nm and heading_deg are those of
\* the sighting just logged, None included
C7_TelemetryIsLatest ==
    [][ (Stepped /\ TheCall.op # "error") =>
        \E i \in DOMAIN flights' :
          /\ i \in DOMAIN flights => flights'[i] # flights[i]
          /\ flights'[i].id = TheCall.id
          /\ \A f \in TelFields : flights'[i][f] = TheCall.row[f]
      ]_vars

\* an altitude was recorded and the next sighting of the event had none
C7_Witness ==
    /\ Len(calls) = 2
    /\ Len(flights) = 1
    /\ calls[1].row.altitude_ft = "30000"
    /\ calls[2].row.altitude_ft = NoneStr
    /\ calls[2].op = "update"
    /\ flights[1].altitude_ft = NoneStr
    /\ flights[1].times_seen = 2

-----------------------------------------------------------------------------
(* C8 *)

SightingFields ==
    {"hex", "reg", "callsign", "type_code"} \cup DescFields \cup TelFields

\* C8: an inserted event has first_seen = last_seen = observed_at (the
\* sighting's seen_at, the clock's reading when it has none), times_seen = 1,
\* the derived key, and every identity, descriptive and telemetry field as
\* the sighting gave it
C8_InsertVerbatim ==
    [][ (Stepped /\ Len(flights') = Len(flights) + 1) =>
        LET r   == flights'[Len(flights')]
            s   == TheCall.row
            obs == IF s.seen_at = NoSeenAt THEN isoformat(now) ELSE s.seen_at
        IN  /\ r.first_seen = obs
            /\ r.last_seen = obs
            /\ r.times_seen = 1
            /\ r.event_key = _build_event_key(s)
            /\ \A f \in SightingFields : r[f] = s[f]
      ]_vars

\* a sighting with hex ' A ', reg ' ', no callsign and no seen_at was
\* inserted after the clock had moved
C8_Witness ==
    /\ Len(calls) = 1
    /\ Len(flights) = 1
    /\ calls[1].row.seen_at = NoSeenAt
    /\ flights[1].hex = <<" ", "A", " ">>
    /\ flights[1].reg = <<" ">>
    /\ flights[1].callsign = NoneSeq
    /\ flights[1].event_key = <<"A", "|", "|">>
    /\ flights[1].type_code = ""
    /\ flights[1].first_seen = isoformat(Epoch + 20 * 60 + 1)
    /\ flights[1].last_seen = flights[1].first_seen

-----------------------------------------------------------------------------
(* C9 *)

\* C9: a successful call either adds exactly one row and leaves every
\* existing row as it was, or leaves the number of rows and modifies exactly
\* one existing row; no call deletes a row or modifies more than one
C9_OneRowPerCall ==
    [][ /\ (Stepped /\ TheCall.op # "error") =>
              (Inserted \/ \E i \in DOMAIN flights : UpdatedOnly(i))
        /\ Len(flights') >= Len(flights)
        /\ Cardinality(ChangedRows) <= 1
      ]_vars

\* an update of the second of two events of one key
C9_Witness ==
    /\ Len(calls) = 3
    /\ Len(flights) = 2
    /\ calls[2].op = "insert"
    /\ calls[3].op = "update"
    /\ flights[1].event_key = flights[2].event_key
    /\ flights[1].times_seen + flights[2].times_seen = 3

-----------------------------------------------------------------------------
(* C10 *)

\* C10: an update leaves the event's first_seen, id, event_key, hex, reg,
\* callsign and type_code as they were: no call changes them in any row
C10_UpdateKeepsIdentity ==
    [][ \A i \in DOMAIN flights :
          /\ i \in DOMAIN flights'
          /\ \A f \in {"first_seen", "id", "event_key", "hex", "reg",
                       "callsign", "type_code"} :
               flights'[i][f] = flights[i][f]
      ]_vars

\* an event was updated by a later sighting that spelt the hex and the
\* type_code differently
C10_Witness ==
    /\ Len(calls) = 2
    /\ Len(flights) = 1
    /\ calls[2].op = "update"
    /\ calls[2].row.hex # flights[1].hex
    /\ calls[2].row.reg # flights[1].reg
    /\ calls[2].row.type_code # flights[1].type_code
    /\ flights[1].last_seen # flights[1].first_seen
    /\ flights[1].first_seen = calls[1].seen_at

-----------------------------------------------------------------------------
(* C11 *)

\* the calls that did not raise
Completed == { k \in DOMAIN calls : calls[k].op # "error" }

\* C11 as stated: log_flight returns the id of the event it inserted or
\* updated
C11_ReturnsEventId ==
    \A k \in Completed : calls[k].returned = <<calls[k].id>>

\* C11 amended: log_flight returns None, after an insert and after an update
\* alike; the id of the event it touched is in the table only
C11_ReturnsNone ==
    \A k \in Completed :
        /\ calls[k].returned = <<>>
        /\ \E i \in DOMAIN flights : flights[i].id = calls[k].id

\* an insert and an update of the inserted event have both returned
C11_Witness ==
    /\ Len(calls) = 2
    /\ calls[1].op = "insert"
    /\ calls[2].op = "update"
    /\ calls[2].id = calls[1].id
    /\ calls[2].returned = <<>>
    /\ flights[1].times_seen = 2

-----------------------------------------------------------------------------
(* C12 *)

\* C12 as stated: no call raises because of the sighting; when seen_at is
\* missing or not a timestamp the clock's reading is used as observed_at and
\* exactly one event is inserted or updated with it
C12_NeverFailsOnContent ==
    [][ Stepped =>
        /\ TheCall.op # "error"
        /\ (TheCall.row.seen_at = NoSeenAt \/ ~IsIso(TheCall.row.seen_at)) =>
             /\ Inserted \/ \E i \in DOMAIN flights : UpdatedOnly(i)
             /\ \E i \in DOMAIN flights' :
                  /\ flights'[i].id = TheCall.id
                  /\ flights'[i].last_seen = isoformat(now)
      ]_vars

-----------------------------------------------------------------------------
(* C13 *)

RECURSIVE SumTimesSeen(_)
\* the sum of times_seen over the rows of a table
SumTimesSeen(tbl) ==
    IF tbl = <<>> THEN 0
    ELSE tbl[1].times_seen + SumTimesSeen(Tail(tbl))

StoreRaised(c) == c.raised \notin {"", "ValueError"}

\* C13: a call in which the store fails at any step ends in an error and
\* leaves the flights table (and the id counter) exactly as it was; the
\* table never shows more than the completed calls wrote
C13_StoreFailureLeavesNoTrace ==
    /\ [] (SumTimesSeen(flights) = Cardinality(Completed))
    /\ [][ (Stepped /\ StoreRaised(TheCall)) =>
             /\ TheCall.op = "error"
             /\ flights' = flights
             /\ sqlite_sequence' = sqlite_sequence
         ]_vars

\* an event was inserted, the commit of its first update failed, the commit
\* of an insert for another sighting failed, and the table holds the event
\* as it was inserted
C13_Witness ==
    /\ Len(calls) = 3
    /\ calls[1].op = "insert"
    /\ calls[2].raised = "sqlite3.Error at update_commit"
    /\ calls[3].raised = "sqlite3.Error at insert_commit"
    /\ Len(flights) = 1
    /\ flights[1].times_seen = 1
    /\ flights[1].last_seen = calls[1].seen_at
    /\ sqlite_sequence = 1

-----------------------------------------------------------------------------
(* C14 *)

LoopEnded == loop.pc \in {"exited", "killed", "crashed"}

\* C14: a failure of log_flight does not stop the cycle: the loop goes on
\* to draw_card for the same sighting, the card it then draws is that
\* sighting's, and the loop comes to its next poll (unless Ctrl-C or a
\* failure of the display ends the program)
C14_LogFailureKeepsCycle ==
    /\ [][ (loop.pc = "log" /\ Stepped /\ TheCall.op = "error") =>
             /\ loop'.pc = "draw"
             /\ loop'.ac = loop.ac
             /\ loop'.screen = loop.screen
         ]_vars
    /\ [][ (loop.pc = "draw" /\ loop.log = "failed" /\ loop'.pc = "sleep") =>
             loop'.screen = <<"card", LoopKey(loop.ac)>>
         ]_vars
    /\ (loop.pc = "draw" /\ loop.log = "failed")
         ~> (loop.pc = "fetch" \/ LoopEnded)

\* log_flight failed on the first sighting, whose card is on the screen, and
\* the loop is at its next poll
C14_Witness ==
    /\ loop.pc = "fetch"
    /\ loop.log = "failed"
    /\ loop.screen = <<"card", LoopKey(loop.ac)>>
    /\ Len(calls) = 1
    /\ calls[1].raised = "sqlite3.Error at insert_commit"
    /\ flights = <<>>

-----------------------------------------------------------------------------
(* C15 *)

\* the rows of tbl with the key of the caller pr whose last_seen is inside
\* the window of its sighting
InWindowOf(tbl, pr) ==
    { i \in DOMAIN tbl : /\ tbl[i].event_key = pr.event_key
                         /\ TextLE(CutoffIso(pr.seen_at), tbl[i].last_seen) }

\* C15: a call for a non-degenerate key whose lookup observed no match
\* inserts a new event also when, by the time it writes, a concurrent call
\* has inserted an event of its key inside the window: the table then holds
\* two events of that key inside the window
C15_StaleLookupInserts ==
    [][ \A p \in Procs :
          ( /\ procs[p].pc = "looked"
            /\ procs'[p].pc = "done"
            /\ procs[p].match = NoMatch )
          => /\ Inserted
             /\ TheCall.op = "insert"
             /\ flights'[Len(flights')].event_key = procs[p].event_key
             /\ InWindowOf(flights, procs[p]) # {}
                  => Cardinality(InWindowOf(flights', procs[p])) >= 2
      ]_vars

\* two concurrent calls for the key 'A||' at one observed_at have both
\* observed no match and both inserted: the table holds two open events
C15_Witness ==
    /\ procs[1].pc = "done" /\ procs[2].pc = "done"
    /\ procs[1].match = NoMatch /\ procs[2].match = NoMatch
    /\ procs[1].event_key = procs[2].event_key
    /\ ~Degenerate(procs[1].event_key)
    /\ procs[1].seen_at = procs[2].seen_at
    /\ Len(flights) = 2
    /\ flights[1].event_key = procs[1].event_key
    /\ flights[2].event_key = procs[1].event_key
    /\ flights[1].last_seen = flights[2].last_seen
    /\ flights[1].id # flights[2].id
    /\ Cardinality(OpenAt(procs[1].event_key,
                          Seconds(procs[1].seen_at))) = 2

-----------------------------------------------------------------------------
(* C16 *)

\* the observed_at values of the sightings coalesced into the event id
ObservedAt(id) ==
    { calls[k].seen_at : k \in SightingsOf(id) }

\* C16 as stated: every event's first_seen is the earliest and its last_seen
\* the latest observed_at of the sightings coalesced into it, in whatever
\* order they arrived
C16_SeenSpan ==
    \A i \in DOMAIN flights :
        /\ flights[i].first_seen \in ObservedAt(flights[i].id)
        /\ flights[i].last_seen \in ObservedAt(flights[i].id)
        /\ \A t \in ObservedAt(flights[i].id) :
              /\ TextLE(flights[i].first_seen, t)
              /\ TextLE(t, flights[i].last_seen)

-----------------------------------------------------------------------------
(* C17 *)

\* the seconds between two timestamps, in either direction
Gap(t, u) ==
    IF Seconds(t) >= Seconds(u) THEN Seconds(t) - Seconds(u)
                                ELSE Seconds(u) - Seconds(t)

\* C17 as stated: a sighting is coalesced into an event only when its
\* observed_at and the event's last_seen at the time of the call are at most
\* 20 minutes apart, in either direction
C17_CoalescedWithinWindow ==
    [][ (Stepped /\ TheCall.op = "update") =>
          \A i \in ChangedRows :
              Gap(TheCall.seen_at, flights[i].last_seen)
                 <= EVENT_WINDOW_MINUTES * 60
      ]_vars

-----------------------------------------------------------------------------
(* C18 *)

\* the step answered a request for the detail of an aircraft
AnsweredDetail ==
    /\ response' # response
    /\ response'.request[1] = "detail"
    /\ response'.body # NoneValue

\* the rows of the table that the request of the step matched
RequestRows ==
    DetailRows(Cleaned(response'.request[2]), Cleaned(response'.request[3]))

\* C18 as stated: the total_seen of a detail is the sum of times_seen over
\* the rows matching the lookup
C18_TotalSeenIsSightings ==
    [][ AnsweredDetail =>
          response'.body[1].total_seen
            = SumTimesSeen(SelectSeq(flights,
                  LAMBDA row : \E i \in RequestRows : flights[i] = row))
      ]_vars

-----------------------------------------------------------------------------
(* C19 *)

\* C19 as stated: the first_seen of a detail is the earliest first_seen and
\* its last_seen the latest last_seen over the rows matching the lookup
C19_DetailSpan ==
    [][ AnsweredDetail =>
          /\ \E i \in RequestRows :
                response'.body[1].first_seen = flights[i].first_seen
          /\ \A i \in RequestRows :
                TextLE(response'.body[1].first_seen, flights[i].first_seen)
          /\ \E i \in RequestRows :
                response'.body[1].last_seen = flights[i].last_seen
          /\ \A i \in RequestRows :
                TextLE(flights[i].last_seen, response'.body[1].last_seen)
      ]_vars

-----------------------------------------------------------------------------
(* C20 *)

\* the ids given to events by the calls made so far
InsertedIds == { calls[k].id : k \in { j \in DOMAIN calls :
                                         calls[j].op = "insert" } }

\* C20: an inserted event receives an id strictly greater than the id of
\* every event inserted before it, so no id is given twice and the ids of
\* the table increase in insertion order
C20_IdsIncrease ==
    /\ [][ (Stepped /\ TheCall.op = "insert") =>
             /\ Inserted
             /\ flights'[Len(flights')].id = TheCall.id
             /\ \A id \in InsertedIds : id < TheCall.id
             /\ \A i \in DOMAIN flights : flights[i].id < TheCall.id
         ]_vars
    /\ [] \A i, j \in DOMAIN flights :
             i < j => flights[i].id < flights[j].id

\* an event was inserted, an insert failed at its commit and was rolled
\* back, and the next insert received a greater id than the first
C20_Witness ==
    /\ Len(calls) = 3
    /\ calls[1].op = "insert"
    /\ calls[2].raised = "sqlite3.Error at insert_commit"
    /\ calls[3].op = "insert"
    /\ calls[1].id < calls[3].id
    /\ Len(flights) = 2
    /\ flights[1].id = calls[1].id
    /\ flights[2].id = calls[3].id

-----------------------------------------------------------------------------
(* C21 *)

\* v without its leading and trailing blanks, the empty text for an absent v
Trimmed(v) ==
    LET s  == IF v = NoneSeq THEN <<>> ELSE v
        NB == { i \in DOMAIN s : s[i] # " " }
    IN  IF NB = {} THEN <<>>
        ELSE SubSeq(s, CHOOSE i \in NB : \A j \in NB : i <= j,
                       CHOOSE i \in NB : \A j \in NB : j <= i)

\* the trimmed hex, reg and callsign of a sighting
TrimmedTriple(row) ==
    << Trimmed(row.hex), Trimmed(row.reg), Trimmed(row.callsign) >>

\* C21: the key of every call is trim(hex) + '|' + trim(reg) + '|' +
\* trim(callsign), an absent field counting as the empty text; two sightings
\* with equal trimmed triples get the same key whatever else they carry
C21_KeyIsTrimmedTriple ==
    /\ \A k \in DOMAIN calls :
          calls[k].event_key
            = Trimmed(calls[k].row.hex) \o <<"|">>
                \o Trimmed(calls[k].row.reg) \o <<"|">>
                \o Trimmed(calls[k].row.callsign)
    /\ \A a, b \in DOMAIN calls :
          TrimmedTriple(calls[a].row) = TrimmedTriple(calls[b].row)
             => calls[a].event_key = calls[b].event_key

\* hex 'A' and hex ' A ' with reg ' ', with different content and
\* timestamps, were given the one key 'A||'
C21_Witness ==
    /\ Len(calls) = 2
    /\ calls[1].row.hex = <<"A">>
    /\ calls[1].row.reg = NoneSeq
    /\ calls[2].row.hex = <<" ", "A", " ">>
    /\ calls[2].row.reg = <<" ">>
    /\ calls[1].row.type_code # calls[2].row.type_code
    /\ calls[1].row.seen_at # calls[2].row.seen_at
    /\ calls[1].event_key = <<"A", "|", "|">>
    /\ calls[2].event_key = <<"A", "|", "|">>

-----------------------------------------------------------------------------
(* C22 *)

\* the step answered a request for the recent flights
AnsweredRecent ==
    /\ response' # response
    /\ response'.request[1] = "recent"

\* the ids of the events in the answer of the step
ListedIds == { response'.body[k].id : k \in DOMAIN response'.body }

\* C22 as stated: the answer holds at most `limit` rows, each an event of
\* the table, and no event left out has a later last_seen than an event in
\* the answer
C22_RecentByLastSeen ==
    [][ AnsweredRecent =>
          /\ Len(response'.body) <= response'.request[2]
          /\ \A k \in DOMAIN response'.body :
                \E i \in DOMAIN flights : flights[i] = response'.body[k]
          /\ \A i, j \in DOMAIN flights :
                (flights[i].id \in ListedIds /\ flights[j].id \notin ListedIds)
                  => TextLE(flights[j].last_seen, flights[i].last_seen)
      ]_vars

-----------------------------------------------------------------------------
(* C23 *)

\* the sightings so far came in non-decreasing observed_at order
IngestedInOrder ==
    \A a, b \in DOMAIN calls :
        a < b => Seconds(calls[a].seen_at) <= Seconds(calls[b].seen_at)

\* the latest observed_at ingested so far, in seconds
LatestObserved ==
    LET k == CHOOSE k \in DOMAIN calls :
                \A j \in DOMAIN calls :
                    Seconds(calls[j].seen_at) <= Seconds(calls[k].seen_at)
    IN  Seconds(calls[k].seen_at)

\* C23: while one writer ingests sightings in non-decreasing observed_at
\* order, every non-degenerate key has at most one event with last_seen
\* within the 20 minutes before the latest ingested observed_at, and an event
\* is inserted for such a key only if every event of the key has last_seen
\* more than 20 minutes before the sighting (none, when the key has no event)
C23_SingleWriterInOrder ==
    /\ [] ( (calls # <<>> /\ IngestedInOrder) =>
              \A k \in DOMAIN calls :
                  ~Degenerate(calls[k].event_key) =>
                     Cardinality(OpenAt(calls[k].event_key,
                                        LatestObserved)) <= 1 )
    /\ [][ ( /\ Stepped
             /\ IngestedInOrder
             /\ \A k \in DOMAIN calls :
                    Seconds(calls[k].seen_at) <= Seconds(TheCall.seen_at)
             /\ ~Degenerate(TheCall.event_key)
             /\ TheCall.op = "insert" )
           => \A i \in DOMAIN flights :
                 flights[i].event_key = TheCall.event_key =>
                    Seconds(flights[i].last_seen)
                       < Seconds(TheCall.seen_at) - 20 * 60
         ]_vars

\* hex 'A' was seen, then 20 min 1 s later (a second event), then again at
\* that time (coalesced): two events of the key, one of them open
C23_Witness ==
    /\ Len(calls) = 3
    /\ IngestedInOrder
    /\ \A k \in DOMAIN calls : calls[k].event_key = <<"A", "|", "|">>
    /\ calls[1].op = "insert"
    /\ calls[2].op = "insert"
    /\ calls[3].op = "update"
    /\ Seconds(calls[2].seen_at) = Seconds(calls[1].seen_at) + 20 * 60 + 1
    /\ Len(flights) = 2
    /\ Cardinality(OpenAt(<<"A", "|", "|">>, LatestObserved)) = 1

-----------------------------------------------------------------------------
(* C24 *)

\* C24 as stated: every connection a log_flight call opened is closed when
\* the call ends, on every exit path
C24_ConnectionsClosed == open_connections = 0

-----------------------------------------------------------------------------
(* C25 *)

\* the number of sightings coalesced into the event of call k up to call k:
\* the times_seen of the row that call k left
VersionAfter(k) ==
    Cardinality({ j \in 1..k : calls[j].op # "error"
                               /\ calls[j].id = calls[k].id })

\* C25 as stated: after every call that inserts or updates an event, the
\* subscriber eventually receives a message carrying the row of that event
\* as that call, or a later one, left it
C25_StreamPushesChanges ==
    \A k \in 1..MaxSseCalls :
        (Len(calls) >= k /\ calls[k].op # "error")
          ~> ( /\ Len(calls) >= k
               /\ \E m \in DOMAIN sse.sent :
                     /\ sse.sent[m].id = calls[k].id
                     /\ sse.sent[m].times_seen >= VersionAfter(k) )

-----------------------------------------------------------------------------
(* C26 *)

\* C26 as stated: a request for a hex whose details were fetched and stored
\* before is answered from the cache file: it does not go on to the network
C26_StoredIsServedFromCache ==
    [][ \A t \in Threads :
          (mil.reqs[t].pc = "idle" /\ mil'.reqs[t].pc = "get")
            => mil'.reqs[t].hex \notin mil.stored
      ]_vars

-----------------------------------------------------------------------------
(* C27 *)

\* C27: under concurrent callers the sum of times_seen over all rows equals
\* the number of calls that have written, and a call that updates adds one
\* to the count its event holds when it writes, whatever count its lookup
\* fetched
C27_NoLostIncrement ==
    /\ [] (SumTimesSeen(flights) = Cardinality(Completed))
    /\ [][ \A p \in Procs :
             ( /\ procs[p].pc = "looked"
               /\ procs'[p].pc = "done"
               /\ procs[p].match # NoMatch )
             => \E i \in DOMAIN flights :
                   /\ flights[i].id = procs[p].match[1]
                   /\ UpdatedOnly(i)
                   /\ flights'[i].times_seen = flights[i].times_seen + 1
         ]_vars

\* both callers fetched the event with times_seen = 1 before either wrote,
\* both updated it, and it counts three sightings
C27_Witness ==
    /\ procs[1].pc = "done" /\ procs[2].pc = "done"
    /\ procs[1].match = <<1, 1>>
    /\ procs[2].match = <<1, 1>>
    /\ Len(calls) = 3
    /\ calls[2].op = "update" /\ calls[3].op = "update"
    /\ Len(flights) = 1
    /\ flights[1].times_seen = 3

-----------------------------------------------------------------------------
(* C28 *)

\* C28: every row has seen_at equal to last_seen; an insert sets both to the
\* observed_at of its sighting and an update sets both of the row it updates
\* to the new observed_at
C28_SeenAtIsLastSeen ==
    /\ [] \A i \in DOMAIN flights : flights[i].seen_at = flights[i].last_seen
    /\ [][ (Stepped /\ TheCall.op # "error") =>
             \E i \in DOMAIN flights' :
                /\ flights'[i].id = TheCall.id
                /\ flights'[i].seen_at = TheCall.seen_at
                /\ flights'[i].last_seen = TheCall.seen_at
         ]_vars

\* an event first seen at 01:00:00 was updated at 01:20:00: seen_at and
\* last_seen both moved on, first_seen stayed
C28_Witness ==
    /\ Len(flights) = 1
    /\ flights[1].times_seen = 2
    /\ flights[1].first_seen = At(0)
    /\ flights[1].seen_at = At(WindowSeconds)
    /\ flights[1].last_seen = At(WindowSeconds)

-----------------------------------------------------------------------------
(* C29 *)

\* C29 as stated: the cached lookups change only in a cycle whose key is not
\* last_key, and past the enrichment block the cached aircraft, route and
\* photo are the results of lookups made for the key of the cycle
C29_CacheMatchesKey ==
    /\ [][ ( \/ loop'.cached_aircraft # loop.cached_aircraft
             \/ loop'.cached_route # loop.cached_route
             \/ loop'.cached_photo # loop.cached_photo )
           => (loop.pc = "enrich" /\ LoopKey(loop.ac) # loop.last_key)
         ]_vars
    /\ [] ( loop.pc \in {"log", "draw"} =>
              /\ loop.cached_aircraft = LoopKey(loop.ac)
              /\ loop.cached_route = LoopKey(loop.ac)
              /\ loop.cached_photo = LoopKey(loop.ac) )

-----------------------------------------------------------------------------
(* C30 *)

\* C30 as stated: an exception raised in a cycle never ends the loop: the
\* error screen is shown and the next cycle comes, unless Ctrl-C ends the
\* program; and the loop ends only on KeyboardInterrupt, with the display's
\* module_exit called
C30_LoopSurvivesErrors ==
    /\ [] (loop.pc # "crashed")
    /\ [][ (loop.pc = "error" /\ loop'.pc = "sleep") =>
             loop'.screen = <<"error", NoKey>> ]_vars
    /\ (loop.pc = "error") ~> (loop.pc = "fetch" \/ LoopEnded)
    /\ [] (LoopEnded => (loop.pc = "exited" /\ loop.module_exit))

=============================================================================
